---- MODULE Spec2Model ----
(***************************************************************************)
(* A model of the osc crate: the OSC wire codec (src/src/lib.rs), the      *)
(* client with its correlation queue (src/src/client.rs) and the server    *)
(* dispatch loop (src/src/server.rs).                                      *)
(*                                                                         *)
(* Bytes are integers 0..255, byte strings are sequences of bytes.  A Rust *)
(* String is modelled by its UTF-8 bytes.  Indices into buffers are        *)
(* 0-based as in the source; data[i] of the source is data[i + 1] here.    *)
(*                                                                         *)
(* Four families of specifications share the module:                       *)
(*   CodecSpec   build and parse_bytes applied to bounded inputs           *)
(*   ClientSpec  one OscClient: datagram arrival, recv, wait_for           *)
(*   HandlesSpec two OscClient handles (try_clone) on one connection       *)
(*   ServerSpec  one OscServer: add_route, start, the receive loop         *)
(***************************************************************************)
EXTENDS Integers, Sequences, FiniteSets, TLC

VARIABLES
    \* ---- codec ----
    message,        \* the OscMessage given to build
    data,           \* the bytes given to parse_bytes
    origin,         \* "raw": data was drawn as input; "built": data is build(message)
    built,          \* Result of message.build()
    parsed,         \* Result of OscMessage::parse_bytes(data)
    \* ---- client: OscClient<UdpSocket> and its socket ----
    net,            \* datagrams queued at the client's socket, oldest first
    pendingErr,     \* an asynchronous socket error waits to be reported by recv
    buffer,         \* OscClient::buffer
    message_queue,  \* OscClient::message_queue
    timeout_secs,   \* OscClient::timeout_secs
    read_timeout,   \* the socket's read timeout: <<>> is None, <<t>> is Some(t)
    pc,             \* where the client is: "idle", or inside wait_for at
                    \* "first_recv" (line 216) or "loop_recv" (line 223)
    target,         \* addr of the wait_for in progress
    elapsed,        \* loop_start.elapsed(), in seconds, of the wait_for in
                    \* progress or last completed (0 before its loop)
    taken,          \* datagrams taken from the socket so far
    arrivals,       \* datagrams that arrived so far
    calls,          \* recv and wait_for calls made so far
    polled,         \* messages decoded inside wait_for, in order of receipt
    returned,       \* <<addr, message>> of every wait_for that returned Ok, in order
    lastCall,       \* the last completed call and its result
    lastDatagram,   \* the datagram the last call's last recv took (or <<-1>>)
    receivedBy,     \* for each datagram taken from the socket, in order, the
                    \* handle whose recv took it
    lastPoll,       \* the result of the last recv made by the wait_for in
                    \* progress or last completed (NoResult: none made)
    current,        \* which handle the variables above describe: "original"
                    \* (made by new) or "clone" (made by try_clone)
    other,          \* the fields of the other handle on the same connection,
                    \* or NoHandle while try_clone has not been called
    \* ---- server: OscServer and its socket ----
    phase,          \* "Building" (new, add_route), "Running" (inside start),
                    \* "Panicked" (add_route's assert failed), "Returned" (start returned)
    route_table,    \* OscServer::route_table: a function from addresses to handlers
    sbuffer,        \* OscServer::buffer
    served,         \* iterations of the loop of start so far
    lastIn,         \* what the last iteration's recv_from met: the datagram, its
                    \* sender and the result kind of recv_from
    lastOut,        \* the send_to calls of the last iteration: <<>> or one reply
    undecodableSeen,\* an earlier iteration met a datagram parse_bytes refuses
    startResult,    \* what start returned
    registered,     \* for each address given to add_route, the handlers given
                    \* with it, in the order of the calls
    sendFailedSeen  \* an earlier iteration's send_to failed

codecVars == <<message, data, origin, built, parsed>>

clientVars ==
    <<net, pendingErr, buffer, message_queue, timeout_secs, read_timeout, pc, target,
      elapsed, taken, arrivals, calls, polled, returned, lastCall, lastDatagram,
      receivedBy, lastPoll, current, other>>

\* The two variables of the second handle
handleVars == <<current, other>>

serverVars ==
    <<phase, route_table, sbuffer, served, lastIn, lastOut, undecodableSeen, startResult,
      registered, sendFailedSeen>>

vars == <<codecVars, clientVars, serverVars>>

----------------------------------------------------------------------------
(* Bytes and small helpers *)

NUL == 0
COMMA == 44
TAG_i == 105
TAG_f == 102
TAG_s == 115
TAG_b == 98
I32_MAX == 2147483647

Min(x, y) == IF x <= y THEN x ELSE y

\* vec![b'\0'; n]
Zeros(n) == [k \in 1..n |-> NUL]

\* All sequences over S of length 0..n
SeqsUpTo(S, n) == UNION {[1..k -> S] : k \in 0..n}

----------------------------------------------------------------------------
(* Arg and OscMessage *)

\* enum Arg { Int(i32), Float(f32), Str(String), Blob(Vec<u8>) }.
\* n carries an Int's value; b carries a Float's four IEEE-754 bytes (its bit
\* pattern, most significant first), a Str's UTF-8 bytes or a Blob's bytes.
ArgInt(i) == [t |-> "Int", n |-> i, b |-> <<>>]
ArgFloat(bits) == [t |-> "Float", n |-> 0, b |-> bits]
ArgStr(s) == [t |-> "Str", n |-> 0, b |-> s]
ArgBlob(bs) == [t |-> "Blob", n |-> 0, b |-> bs]

\* OscMessage::new
OscMessage(address, args) == [address |-> address, args |-> args]

\* Result<_, Error>: kind is "Ok" or the Error variant; the other fields hold
\* the Ok payload (bytes for build, address and args for parse_bytes) or the
\* variant's fields (a, b: the numbers; s: the string).
Res(kind, bytes, address, args, a, b, s) ==
    [kind |-> kind, bytes |-> bytes, address |-> address, args |-> args,
     a |-> a, b |-> b, s |-> s]
OkBytes(bytes) == Res("Ok", bytes, <<>>, <<>>, 0, 0, "")
OkMessage(address, args) == Res("Ok", <<>>, address, args, 0, 0, "")
Err(kind, a, b, s) == Res(kind, <<>>, <<>>, <<>>, a, b, s)
\* No call made yet
NoResult == Res("None", <<>>, <<>>, <<>>, 0, 0, "")
\* A panic (an out-of-bounds index) instead of a returned Result
Panic == Res("Panic", <<>>, <<>>, <<>>, 0, 0, "")

----------------------------------------------------------------------------
(* Encoding: lib.rs 79-192 *)

arg_char_repr(arg) ==
    CASE arg.t = "Int" -> TAG_i
      [] arg.t = "Float" -> TAG_f
      [] arg.t = "Str" -> TAG_s
      [] arg.t = "Blob" -> TAG_b

\* i32::to_be_bytes: two's complement, most significant byte first.
\* u is the low 31 bits; the sign bit is the top bit of the first byte.
i32_to_be_bytes(i) ==
    LET u == IF i >= 0 THEN i ELSE (i + I32_MAX) + 1
    IN <<(u \div 16777216) + (IF i < 0 THEN 128 ELSE 0),
         (u \div 65536) % 256,
         (u \div 256) % 256,
         u % 256>>

\* i32::from_be_bytes
i32_from_be_bytes(bs) ==
    LET low == (bs[1] % 128) * 16777216 + bs[2] * 65536 + bs[3] * 256 + bs[4]
    IN IF bs[1] >= 128 THEN (low - I32_MAX) - 1 ELSE low

\* Mutant of write_string: padding to the next multiple of 4 only when the
\* length is not one already, `(4 - (arg.len() % 4)) % 4` zero bytes
write_string_minimal(arg) == arg \o Zeros((4 - (Len(arg) % 4)) % 4)

write_string(arg) == arg \o Zeros(4 - (Len(arg) % 4))

\* Mutant of write_blob: the payload is written without padding
write_blob_unpadded(arg) ==
    IF Len(arg) > I32_MAX
    THEN Err("DataLength", I32_MAX, Len(arg), "")
    ELSE OkBytes(i32_to_be_bytes(Len(arg)) \o arg)

write_blob(arg) ==
    IF Len(arg) > I32_MAX
    THEN Err("DataLength", I32_MAX, Len(arg), "")
    ELSE OkBytes(i32_to_be_bytes(Len(arg)) \o arg \o Zeros(4 - (Len(arg) % 4)))

write_arg(arg) ==
    CASE arg.t = "Float" -> OkBytes(arg.b)
      [] arg.t = "Int" -> OkBytes(i32_to_be_bytes(arg.n))
      [] arg.t = "Str" -> OkBytes(write_string(arg.b))
      [] arg.t = "Blob" -> write_blob(arg.b)

\* The loop of build over self.args from index k on: types is
\* message_arg_types, arguments is message_arguments.
RECURSIVE build_args(_, _, _, _)
build_args(args, k, types, arguments) ==
    IF k > Len(args)
    THEN [kind |-> "Ok", types |-> types, arguments |-> arguments, err |-> NoResult]
    ELSE LET w == write_arg(args[k])
         IN IF w.kind # "Ok"
            THEN [kind |-> w.kind, types |-> <<>>, arguments |-> <<>>, err |-> w]
            ELSE build_args(args, k + 1, Append(types, arg_char_repr(args[k])),
                            arguments \o w.bytes)

\* Mutant of build: a message without arguments gets no type-tag section
build_without_empty_tags(m) ==
    LET msg == write_string(m.address)
    IN IF m.args = <<>>
       THEN OkBytes(msg)
       ELSE LET r == build_args(m.args, 1, <<COMMA>>, <<>>)
            IN IF r.kind # "Ok"
               THEN r.err
               ELSE OkBytes(msg \o write_string(r.types) \o r.arguments)

\* OscMessage::build
build(m) ==
    LET msg == write_string(m.address)
    IN IF m.args = <<>>
       THEN OkBytes(msg \o write_string(<<COMMA>>))
       ELSE LET r == build_args(m.args, 1, <<COMMA>>, <<>>)
            IN IF r.kind # "Ok"
               THEN r.err
               ELSE OkBytes(msg \o write_string(r.types) \o r.arguments)

----------------------------------------------------------------------------
(* Decoding: lib.rs 89-97, 129-138, 205-302 *)

\* String::from_utf8(..).is_ok().  The byte alphabets of this model hold
\* ASCII bytes and 0xFF only; a byte string over them is valid UTF-8 exactly
\* when it holds no byte above 0x7F, and then its chars are its bytes.
from_utf8_ok(bs) == \A k \in 1..Len(bs) : bs[k] < 128

\* Mutant of type_tag_to_default_arg: an unknown tag defaults to an Int
\* placeholder instead of failing
type_tag_defaulting_to_int(tag) ==
    CASE tag = TAG_f -> [err |-> NoResult, arg |-> ArgFloat(<<0, 0, 0, 0>>)]
      [] tag = TAG_s -> [err |-> NoResult, arg |-> ArgStr(<<>>)]
      [] tag = TAG_b -> [err |-> NoResult, arg |-> ArgBlob(<<>>)]
      [] OTHER -> [err |-> NoResult, arg |-> ArgInt(0)]

\* type_tag_to_default_arg: the placeholder of the tag, or
\* Error::UnrecognisedTypeTag(tag)
type_tag_to_default_arg(tag) ==
    CASE tag = TAG_i -> [err |-> NoResult, arg |-> ArgInt(0)]
      [] tag = TAG_f -> [err |-> NoResult, arg |-> ArgFloat(<<0, 0, 0, 0>>)]
      [] tag = TAG_s -> [err |-> NoResult, arg |-> ArgStr(<<>>)]
      [] tag = TAG_b -> [err |-> NoResult, arg |-> ArgBlob(<<>>)]
      [] OTHER -> [err |-> Err("UnrecognisedTypeTag", tag, 0, ""), arg |-> ArgInt(0)]

\* data[i], the panicking index expression: -1 stands for the panic.
Index(buf, i) == IF i < Len(buf) THEN buf[i + 1] ELSE -1

\* The loop guard `i < data.len()` of the three scanning loops
in_bounds(buf, i) == i < Len(buf)

\* while i < data.len() { if data[i] != 0 { push; } else { break; } i += 1; }
\* Returns the index the loop stops at, or -1 if data[i] panicked.
RECURSIVE scan_nul(_, _)
scan_nul(buf, i) ==
    IF in_bounds(buf, i)
    THEN LET c == Index(buf, i)
         IN IF c < 0 THEN -1
            ELSE IF c # NUL THEN scan_nul(buf, i + 1)
            ELSE i
    ELSE i

\* i += 4 - (i % 4)
align(i) == i + (4 - (i % 4))

\* scan_into_byte_array(arr, idx, data) with arr.len() = length: k items are
\* written so far (acc).  On failure idx is the index data.get refused.
RECURSIVE scan_items(_, _, _, _, _)
scan_items(length, k, idx, buf, acc) ==
    IF k = length
    THEN [ok |-> TRUE, bytes |-> acc, idx |-> idx]
    ELSE IF idx >= Len(buf)
         THEN [ok |-> FALSE, bytes |-> <<>>, idx |-> idx]
         ELSE scan_items(length, k + 1, idx + 1, buf, Append(acc, buf[idx + 1]))

scan_into_byte_array(length, idx, buf) == scan_items(length, 0, idx, buf, <<>>)

\* Mutant of usize_try_from_ok: `blob_size as usize`, a cast that never fails
usize_cast_ok(blob_size) == TRUE

\* usize::try_from(blob_size).is_ok()
usize_try_from_ok(blob_size) == blob_size >= 0

\* for arg_tag in arg_types_str.chars() { args.push(type_tag_to_default_arg(arg_tag)?); }
\* from the k-th tag on: the placeholders, or the first error.
RECURSIVE prepare_args(_, _, _)
prepare_args(tags, k, args) ==
    IF k > Len(tags)
    THEN OkMessage(<<>>, args)
    ELSE LET r == type_tag_to_default_arg(tags[k])
         IN IF r.err.kind # "None"
            THEN r.err
            ELSE prepare_args(tags, k + 1, Append(args, r.arg))

\* One iteration of `for arg in &mut args` (lines 258-298) for the
\* placeholder arg, with the cursor at i: the filled argument and the
\* cursor after it, or the error returned.
fill_arg(arg, i, buf) ==
    CASE arg.t \in {"Int", "Float"} ->
           LET r == scan_into_byte_array(4, i, buf)
           IN IF ~r.ok
              THEN [err |-> Err("DataLength", 4, r.idx, ""), arg |-> ArgInt(0), i |-> i]
              ELSE [err |-> NoResult,
                    arg |-> IF arg.t = "Int" THEN ArgInt(i32_from_be_bytes(r.bytes))
                            ELSE ArgFloat(r.bytes),
                    i |-> r.idx]
      [] arg.t = "Str" ->
           LET j == scan_nul(buf, i)
               s == SubSeq(buf, i + 1, j)
           IN IF j < 0
              THEN [err |-> Panic, arg |-> ArgInt(0), i |-> i]
              ELSE IF ~from_utf8_ok(s)
              THEN [err |-> Err("Utf8", 0, 0, "OSC string"), arg |-> ArgInt(0), i |-> i]
              ELSE [err |-> NoResult, arg |-> ArgStr(s), i |-> align(j)]
      [] arg.t = "Blob" ->
           LET r == scan_into_byte_array(4, i, buf)
           IN IF ~r.ok
              THEN [err |-> Err("DataLength", 4, r.idx, ""), arg |-> ArgInt(0), i |-> i]
              ELSE LET blob_size == i32_from_be_bytes(r.bytes)
                   IN IF ~usize_try_from_ok(blob_size)
                      THEN [err |-> Err("BlobSize", blob_size, 0, ""),
                            arg |-> ArgInt(0), i |-> i]
                      ELSE LET q == scan_into_byte_array(blob_size, r.idx, buf)
                           IN IF ~q.ok
                              THEN [err |-> Err("DataLength", blob_size, q.idx, ""),
                                    arg |-> ArgInt(0), i |-> i]
                              ELSE [err |-> NoResult, arg |-> ArgBlob(q.bytes),
                                    i |-> q.idx]

\* The loop `for arg in &mut args` from the k-th placeholder on: args holds
\* the filled arguments before k and the placeholders from k on.
RECURSIVE fill_args(_, _, _, _)
fill_args(args, k, i, buf) ==
    IF k > Len(args)
    THEN OkMessage(<<>>, args)
    ELSE LET r == fill_arg(args[k], i, buf)
         IN IF r.err.kind # "None"
            THEN r.err
            ELSE fill_args([args EXCEPT ![k] = r.arg], k + 1, r.i, buf)

\* OscMessage::parse_bytes
parse_bytes(buf) ==
    IF Len(buf) % 4 # 0
    THEN Err("Alignment", Len(buf), 4, "")
    ELSE
    LET j1 == scan_nul(buf, 0)
        address == SubSeq(buf, 1, j1)
    IN
    IF j1 < 0 THEN Panic
    ELSE IF ~from_utf8_ok(address) THEN Err("Utf8", 0, 0, "OSC address")
    ELSE
    LET i1 == align(j1)
        j2 == scan_nul(buf, i1)
        arg_types_str == SubSeq(buf, i1 + 1, j2)
        i2 == align(j2)
    IN
    IF j2 < 0 THEN Panic
    ELSE IF ~from_utf8_ok(arg_types_str)
    THEN Err("Utf8", 0, 0, "OSC argument type tags")
    ELSE IF arg_types_str # <<>> /\ Head(arg_types_str) # COMMA
    THEN Err("Malformed", 0, 0, "OSC argument type tags")
    ELSE
    LET tags == IF arg_types_str = <<>> THEN <<>> ELSE Tail(arg_types_str)
        prepared == prepare_args(tags, 1, <<>>)
    IN
    IF prepared.kind # "Ok" THEN prepared
    ELSE LET r == fill_args(prepared.args, 1, i2, buf)
         IN IF r.kind = "Ok" THEN OkMessage(address, r.args) ELSE r

----------------------------------------------------------------------------
(* The client: client.rs 108-251, over a UDP socket (client.rs 52-81) *)

\* A message with the number of the datagram it was decoded from (id is not
\* a field of OscMessage: it tells apart equal messages of different datagrams)
Msg(address, args, id) == [address |-> address, args |-> args, id |-> id]
NoMsg == Msg(<<>>, <<>>, 0)
NoDatagram == <<-1>>

\* Err(Error::Socket(e)) with e.kind() = kind
SocketErr(kind) == Err("Socket", 0, 0, kind)

\* The error wait_for makes itself: Error::Socket of kind TimedOut with the
\* text "Waiting for data timed out after {duration} seconds"; a holds duration
WaitTimeout(duration) == Err("Socket", duration, 0, "TimedOut")

\* The result of a call: op is "recv" or "wait_for", addr the wait_for's
\* address, res the Result (its Ok message with the datagram's number in msg)
Call(op, addr, res, msg) == [op |-> op, addr |-> addr, res |-> res, msg |-> msg]
NoCall == Call("none", <<>>, NoResult, NoMsg)

\* An OscClient value that is not the one in use: its message_queue,
\* timeout_secs and buffer, and where its thread is (pc, with target, elapsed
\* and lastPoll as for the handle in use)
Handle(queue, timeout, buf, at, addr, time, poll) ==
    [message_queue |-> queue, timeout_secs |-> timeout, buffer |-> buf,
     pc |-> at, target |-> addr, elapsed |-> time, lastPoll |-> poll]
NoHandle == Handle(<<>>, 0, <<>>, "none", <<>>, 0, NoResult)

\* A client that is not used: the state of the client's variables in the
\* specifications that are not about it
ClientIdle ==
    /\ net = <<>>
    /\ pendingErr = FALSE
    /\ buffer = <<>>
    /\ message_queue = <<>>
    /\ timeout_secs = 0
    /\ read_timeout = <<>>
    /\ pc = "unused"
    /\ target = <<>>
    /\ elapsed = 0
    /\ taken = 0
    /\ arrivals = 0
    /\ calls = 0
    /\ polled = <<>>
    /\ returned = <<>>
    /\ lastCall = NoCall
    /\ lastDatagram = NoDatagram
    /\ receivedBy = <<>>
    /\ lastPoll = NoResult
    /\ current = "original"
    /\ other = NoHandle

----------------------------------------------------------------------------
(* The server: server.rs 21-88 *)

\* A datagram met by recv_from: its bytes, its sender, the result of recv_from
In(bytes, sender, recv) == [bytes |-> bytes, sender |-> sender, recv |-> recv]
NoIn == In(<<>>, "", "none")

\* listener.send_to(bytes, to), and whether the socket accepted it
Reply(bytes, to, ok) == [bytes |-> bytes, to |-> to, ok |-> ok]

\* A server that is not used
ServerIdle ==
    /\ phase = "unused"
    /\ route_table = <<>>
    /\ sbuffer = <<>>
    /\ served = 0
    /\ lastIn = NoIn
    /\ lastOut = <<>>
    /\ undecodableSeen = FALSE
    /\ startResult = NoResult
    /\ registered = <<>>
    /\ sendFailedSeen = FALSE

----------------------------------------------------------------------------
(* CodecSpec: build and parse_bytes on bounded inputs *)

MaxArgs == 2          \* arguments per message given to build
MaxTags == 2          \* tag characters after the leading byte of a raw tag string
MaxBodyWords == 2     \* 4-byte words after the header of a raw buffer

\* "/", "/ab", "/abc": one address per padding length 3, 1 and 4
\* and "/x"
Addrs == {<<47>>, <<47, 97, 98>>, <<47, 97, 98, 99>>, <<47, 120>>}

ArgVals ==
    {ArgInt(-1), ArgInt(1), ArgFloat(<<63, 128, 0, 0>>),
     ArgStr(<<>>), ArgStr(<<97, 98, 99, 100>>),
     ArgBlob(<<>>), ArgBlob(<<1>>), ArgBlob(<<1, 2, 3, 4>>)}

Messages == {OscMessage(a, args) : a \in Addrs, args \in SeqsUpTo(ArgVals, MaxArgs)}

\* Raw buffers: an address field, a tag field and a body of 4-byte words, the
\* two fields NUL-terminated and padded; plus buffers with one stray byte and
\* buffers without any terminator.
RawAddrs == {<<47, 97>>, <<255>>}
LeadBytes == {COMMA, TAG_i}
TagBytes == {TAG_i, TAG_f, TAG_s, TAG_b, 120}
RawTagStrs ==
    {<<>>, <<COMMA, 255>>}
    \cup {<<c>> \o t : c \in LeadBytes, t \in SeqsUpTo(TagBytes, MaxTags)}
BodyWords ==
    {<<0, 0, 0, 0>>, <<0, 0, 0, 1>>, <<255, 255, 255, 255>>,
     <<97, 0, 0, 0>>, <<97, 98, 99, 100>>}

RECURSIVE Flatten(_)
Flatten(ws) == IF ws = <<>> THEN <<>> ELSE Head(ws) \o Flatten(Tail(ws))

Header(a, t) == a \o Zeros(4 - (Len(a) % 4)) \o t \o Zeros(4 - (Len(t) % 4))

Buffers ==
    {Header(a, t) \o Flatten(ws) :
        a \in RawAddrs, t \in RawTagStrs, ws \in SeqsUpTo(BodyWords, MaxBodyWords)}
    \cup {Header(a, t) \o <<0>> : a \in RawAddrs, t \in RawTagStrs}
    \cup {<<>>, <<47, 97, 98, 99>>, <<47, 97, 0, 0, 44, 115, 97, 98>>}

CodecInit ==
    /\ ClientIdle
    /\ ServerIdle
    /\ built = NoResult
    /\ parsed = NoResult
    /\ \/ /\ origin = "message"
          /\ message \in Messages
          /\ data = <<>>
       \/ /\ origin = "raw"
          /\ message = OscMessage(<<>>, <<>>)
          /\ data \in Buffers

\* message.build()
Build ==
    /\ origin = "message"
    /\ built = NoResult
    /\ built' = build(message)
    /\ UNCHANGED <<message, data, origin, parsed, clientVars, serverVars>>

\* The bytes built become the bytes to parse
Load ==
    /\ origin = "message"
    /\ built.kind = "Ok"
    /\ data' = built.bytes
    /\ origin' = "built"
    /\ UNCHANGED <<message, built, parsed, clientVars, serverVars>>

\* OscMessage::parse_bytes(&data)
ParseBytes ==
    /\ origin \in {"raw", "built"}
    /\ parsed = NoResult
    /\ parsed' = parse_bytes(data)
    /\ UNCHANGED <<message, data, origin, built, clientVars, serverVars>>

CodecNext == Build \/ Load \/ ParseBytes

CodecSpec == CodecInit /\ [][CodecNext]_vars

----------------------------------------------------------------------------
(* ClientSpec: one OscClient over a UDP socket *)

MaxArrivals == 3      \* datagrams and socket errors that reach the socket
MaxCalls == 3         \* recv and wait_for calls the application makes

AddrX == <<47, 120>>  \* "/x"
AddrY == <<47, 121>>  \* "/y"
AddrZ == <<47, 122>>  \* "/z": no datagram of the peer carries it
WaitAddrs == {AddrX, AddrY, AddrZ}

\* What the peer may send: a well-formed message ("/x" with an Int, 12
\* bytes), a 4-byte datagram holding the address "/y" and nothing else, and a
\* datagram whose address is not UTF-8
Datagrams ==
    {build(OscMessage(AddrX, <<ArgInt(1)>>)).bytes,
     <<47, 121, 0, 0>>,
     <<255, 0, 0, 0>>}

\* buffer_size and timeout_secs given to OscClient::new
BufferSizes == {6, 12}
ReadTimeouts == {<<>>, <<2>>}
\* Seconds that may pass while a recv that finds a datagram runs
RecvTimes == {0, 1}

\* A codec that is not used
CodecIdle ==
    /\ message = OscMessage(<<>>, <<>>)
    /\ data = <<>>
    /\ origin = "unused"
    /\ built = NoResult
    /\ parsed = NoResult

\* OscClient::new(client_address, remote_address, buffer_size, timeout_secs)
ClientInit ==
    /\ CodecIdle
    /\ ServerIdle
    /\ \E buffer_size \in BufferSizes, timeout \in ReadTimeouts :
        /\ read_timeout = timeout
        /\ message_queue = <<>>
        /\ timeout_secs = IF timeout = <<>> THEN 1 ELSE timeout[1]
        /\ buffer = Zeros(buffer_size)
    /\ net = <<>>
    /\ pendingErr = FALSE
    /\ pc = "idle"
    /\ target = <<>>
    /\ elapsed = 0
    /\ taken = 0
    /\ arrivals = 0
    /\ calls = 0
    /\ polled = <<>>
    /\ returned = <<>>
    /\ lastCall = NoCall
    /\ lastDatagram = NoDatagram
    /\ receivedBy = <<>>
    /\ lastPoll = NoResult
    /\ current = "original"
    /\ other = NoHandle

\* One outcome of UdpSocket::recv: its result kind ("Ok" or the io error
\* kind), the buffer and the socket queue after it, the seconds it took and
\* the datagram it took from the socket
Outcome(kind, buf, queue, dt, dgram) ==
    [kind |-> kind, buffer |-> buf, net |-> queue, dt |-> dt, dgram |-> dgram]

\* buf after a datagram d is received into it: the first min(len) bytes of d
\* over the start of buf, the rest of buf as it was
ReceiveInto(buf, d) ==
    SubSeq(d, 1, Min(Len(d), Len(buf)))
        \o SubSeq(buf, Min(Len(d), Len(buf)) + 1, Len(buf))

\* self.connection.recv(&mut self.buffer): every outcome the socket can give.
\* A pending socket error is reported first.  With no datagram queued the call
\* blocks: for ever without a read timeout (no outcome), else for the read
\* timeout, ending in WouldBlock (Unix) or TimedOut (Windows).  A datagram
\* longer than the buffer is cut to the buffer (Unix) or refused with an
\* error (Windows); it leaves the socket queue either way.
TransportRecv ==
    IF pendingErr
    THEN {Outcome("ConnectionRefused", buffer, net, 0, NoDatagram)}
    ELSE IF net = <<>>
    THEN IF read_timeout = <<>>
         THEN {}
         ELSE {Outcome(k, buffer, net, read_timeout[1], NoDatagram) :
                  k \in {"WouldBlock", "TimedOut"}}
    ELSE {Outcome("Ok", ReceiveInto(buffer, Head(net)), Tail(net), dt, Head(net)) :
             dt \in RecvTimes}
         \cup (IF Len(Head(net)) > Len(buffer)
               THEN {Outcome("MessageSize", ReceiveInto(buffer, Head(net)), Tail(net),
                             dt, Head(net)) : dt \in RecvTimes}
               ELSE {})

\* OscClient::recv, given the outcome o of connection.recv
client_recv(o) ==
    IF o.kind # "Ok" THEN SocketErr(o.kind) ELSE parse_bytes(o.buffer)

\* The message of an Ok result, numbered id
MsgOf(res, id) == IF res.kind = "Ok" THEN Msg(res.address, res.args, id) ELSE NoMsg

\* Mutant of push_back: the message is put at the head of the queue
push_front(queue, msg) == <<msg>> \o queue

\* self.message_queue.push_back(msg)
push_back(queue, msg) == Append(queue, msg)

\* Mutant of handle_waiting_errors: every socket error counts as "no data
\* ready" (`Err(Error::Socket(_)) => Ok(None)`)
handle_waiting_errors_ignoring_socket(res, msg, addr, queue) ==
    IF res.kind = "Ok"
    THEN IF msg.address = addr
         THEN [out |-> "Some", queue |-> queue]
         ELSE [out |-> "None", queue |-> push_back(queue, msg)]
    ELSE IF res.kind = "Socket"
         THEN [out |-> "None", queue |-> queue]
         ELSE [out |-> "Err", queue |-> queue]

\* Mutant of handle_waiting_errors: a message for another address is dropped
\* instead of queued
handle_waiting_errors_dropping(res, msg, addr, queue) ==
    IF res.kind = "Ok"
    THEN IF msg.address = addr
         THEN [out |-> "Some", queue |-> queue]
         ELSE [out |-> "None", queue |-> queue]
    ELSE IF res.kind = "Socket" /\ res.s = "WouldBlock"
         THEN [out |-> "None", queue |-> queue]
         ELSE [out |-> "Err", queue |-> queue]

\* OscClient::handle_waiting_errors(res, addr), msg the message of an Ok res:
\* out is "Some" (Ok(Some(msg))), "None" (Ok(None)) or "Err" (Err(res)), and
\* queue is self.message_queue afterwards
handle_waiting_errors(res, msg, addr, queue) ==
    IF res.kind = "Ok"
    THEN IF msg.address = addr
         THEN [out |-> "Some", queue |-> queue]
         ELSE [out |-> "None", queue |-> push_back(queue, msg)]
    ELSE IF res.kind = "Socket" /\ res.s = "WouldBlock"
         THEN [out |-> "None", queue |-> queue]
         ELSE [out |-> "Err", queue |-> queue]

\* Mutant of first_match: the last entry with the address is taken
last_match(queue, addr) ==
    LET hits == {i \in 1..Len(queue) : queue[i].address = addr}
    IN IF hits = {} THEN 0 ELSE CHOOSE i \in hits : \A j \in hits : i >= j

\* for i in 0..self.message_queue.len() { if self.message_queue[i].address == addr ...}
\* the position (from 1) of the first entry with the address, 0 if there is none
first_match(queue, addr) ==
    LET hits == {i \in 1..Len(queue) : queue[i].address = addr}
    IN IF hits = {} THEN 0 ELSE CHOOSE i \in hits : \A j \in hits : i <= j

\* Mutant of remove: VecDeque::swap_remove_back(i), which puts the last
\* entry in the place of the one removed
swap_remove_back(queue, i) ==
    IF i = Len(queue) THEN SubSeq(queue, 1, i - 1)
    ELSE SubSeq(queue, 1, i - 1) \o <<queue[Len(queue)]>>
           \o SubSeq(queue, i + 1, Len(queue) - 1)

\* VecDeque::remove(i)
remove(queue, i) == SubSeq(queue, 1, i - 1) \o SubSeq(queue, i + 1, Len(queue))

\* A datagram reaches the client's socket
Arrive ==
    /\ pc \in {"idle", "first_recv", "loop_recv"}
    /\ arrivals < MaxArrivals
    /\ \E d \in Datagrams : net' = Append(net, d)
    /\ arrivals' = arrivals + 1
    /\ UNCHANGED <<codecVars, serverVars, pendingErr, buffer, message_queue, timeout_secs,
                   read_timeout, pc, target, elapsed, taken, calls, polled, returned,
                   lastCall, lastDatagram, receivedBy, lastPoll, handleVars>>

\* An asynchronous error (an ICMP port-unreachable) reaches the socket
SocketError ==
    /\ pc \in {"idle", "first_recv", "loop_recv"}
    /\ arrivals < MaxArrivals
    /\ ~pendingErr
    /\ pendingErr' = TRUE
    /\ arrivals' = arrivals + 1
    /\ UNCHANGED <<codecVars, serverVars, net, buffer, message_queue, timeout_secs, read_timeout,
                   pc, target, elapsed, taken, calls, polled, returned, lastCall,
                   lastDatagram, receivedBy, lastPoll, handleVars>>

\* Mutant of Received: the socket is read with MSG_PEEK
\* (`UdpSocket::peek(self, buf)`), the datagram stays in the socket queue
ReceivedPeeking(o) ==
    /\ buffer' = o.buffer
    /\ net' = net
    /\ pendingErr' = FALSE
    /\ taken' = IF o.dgram = NoDatagram THEN taken ELSE taken + 1
    /\ lastDatagram' = o.dgram
    /\ receivedBy' = IF o.dgram = NoDatagram THEN receivedBy
                     ELSE Append(receivedBy, current)

\* What every recv does to the socket and the buffer, given its outcome o
Received(o) ==
    /\ buffer' = o.buffer
    /\ net' = o.net
    /\ pendingErr' = FALSE
    /\ taken' = IF o.dgram = NoDatagram THEN taken ELSE taken + 1
    /\ lastDatagram' = o.dgram
    /\ receivedBy' = IF o.dgram = NoDatagram THEN receivedBy
                     ELSE Append(receivedBy, current)

\* Mutant of Recv: recv serves the oldest queued message before it reads
\* the socket, `if let Some(m) = self.message_queue.pop_front() { return Ok(m) }`
RecvFromQueueFirst ==
    /\ pc = "idle"
    /\ calls < MaxCalls
    /\ IF message_queue # <<>>
       THEN /\ lastCall' = Call("recv", <<>>,
                                OkMessage(Head(message_queue).address,
                                          Head(message_queue).args),
                                Head(message_queue))
            /\ message_queue' = Tail(message_queue)
            /\ UNCHANGED <<net, pendingErr, buffer, taken, lastDatagram, receivedBy>>
       ELSE /\ \E o \in TransportRecv :
                /\ Received(o)
                /\ lastCall' = Call("recv", <<>>, client_recv(o),
                                    MsgOf(client_recv(o), taken + 1))
            /\ message_queue' = message_queue
    /\ lastPoll' = NoResult
    /\ calls' = calls + 1
    /\ UNCHANGED <<codecVars, serverVars, timeout_secs, read_timeout, pc, target,
                   elapsed, arrivals, polled, returned, handleVars>>

\* OscClient::recv called by the application
Recv ==
    /\ pc = "idle"
    /\ calls < MaxCalls
    /\ \E o \in TransportRecv :
        /\ Received(o)
        /\ lastCall' = Call("recv", <<>>, client_recv(o), MsgOf(client_recv(o), taken + 1))
    /\ lastPoll' = NoResult
    /\ calls' = calls + 1
    /\ UNCHANGED <<codecVars, serverVars, message_queue, timeout_secs, read_timeout, pc, target,
                   elapsed, arrivals, polled, returned, handleVars>>

\* OscClient::wait_for(addr), lines 208-214: the scan of the queue.  A hit
\* returns at once; otherwise the call goes on to its first recv.
WaitFor ==
    /\ pc = "idle"
    /\ calls < MaxCalls
    /\ \E addr \in WaitAddrs :
        LET i == first_match(message_queue, addr)
        IN IF i # 0
           THEN /\ message_queue' = remove(message_queue, i)
                /\ returned' = Append(returned, <<addr, message_queue[i]>>)
                /\ lastCall' = Call("wait_for", addr,
                                    OkMessage(message_queue[i].address,
                                              message_queue[i].args),
                                    message_queue[i])
                /\ lastDatagram' = NoDatagram
                /\ UNCHANGED <<pc, target>>
           ELSE /\ pc' = "first_recv"
                /\ target' = addr
                /\ UNCHANGED <<message_queue, returned, lastCall, lastDatagram>>
    /\ calls' = calls + 1
    /\ elapsed' = 0
    /\ lastPoll' = NoResult
    /\ UNCHANGED <<codecVars, serverVars, net, pendingErr, buffer, timeout_secs, read_timeout,
                   taken, arrivals, polled, receivedBy, handleVars>>

\* wait_for returns Ok(msg)
ReturnOk(res, msg) ==
    /\ pc' = "idle"
    /\ returned' = Append(returned, <<target, msg>>)
    /\ lastCall' = Call("wait_for", target, res, msg)

\* wait_for returns Err(res)
ReturnErr(res) ==
    /\ pc' = "idle"
    /\ lastCall' = Call("wait_for", target, res, NoMsg)
    /\ UNCHANGED returned

\* Mutant of timed_out: `duration >= 0.0`
timed_out_at_once(duration, timeout) == duration >= 0

\* duration >= self.timeout_secs
timed_out(duration, timeout) == duration >= timeout

\* One recv of wait_for with its handle_waiting_errors, given the outcome o
\* of connection.recv: the first one (lines 216-221) when first, else one
\* iteration of the loop (lines 223-234)
Poll(o, first) ==
    LET res == client_recv(o)
        msg == MsgOf(res, taken + 1)
        h == handle_waiting_errors(res, msg, target, message_queue)
        duration == elapsed + o.dt
    IN /\ Received(o)
       /\ message_queue' = h.queue
       /\ polled' = IF res.kind = "Ok" THEN Append(polled, msg) ELSE polled
       /\ lastPoll' = res
       /\ elapsed' = IF first THEN 0 ELSE duration
       /\ CASE h.out = "Some" -> ReturnOk(res, msg)
            [] h.out = "Err" -> ReturnErr(res)
            [] h.out = "None" /\ first ->
                 /\ pc' = "loop_recv"
                 /\ UNCHANGED <<returned, lastCall>>
            [] h.out = "None" /\ ~first /\ timed_out(duration, timeout_secs) ->
                 ReturnErr(WaitTimeout(duration))
            [] h.out = "None" /\ ~first /\ ~timed_out(duration, timeout_secs) ->
                 UNCHANGED <<pc, returned, lastCall>>

\* wait_for, lines 216-221
FirstRecv ==
    /\ pc = "first_recv"
    /\ \E o \in TransportRecv : Poll(o, TRUE)
    /\ UNCHANGED <<codecVars, serverVars, timeout_secs, read_timeout, target, arrivals, calls,
                   handleVars>>

\* wait_for, lines 222-235: one iteration of the loop
LoopRecv ==
    /\ pc = "loop_recv"
    /\ \E o \in TransportRecv : Poll(o, FALSE)
    /\ UNCHANGED <<codecVars, serverVars, timeout_secs, read_timeout, target, arrivals, calls,
                   handleVars>>

ClientNext == Arrive \/ SocketError \/ Recv \/ WaitFor \/ FirstRecv \/ LoopRecv

ClientSpec == ClientInit /\ [][ClientNext]_vars

\* The thread inside wait_for runs: a recv that can return does return
ClientFair == ClientSpec /\ WF_vars(FirstRecv) /\ WF_vars(LoopRecv)

----------------------------------------------------------------------------
(* HandlesSpec: two OscClient handles on one connection *)
(*                                                                         *)
(* try_clone gives a second OscClient whose connection is a duplicate of   *)
(* the first one's socket: the socket's queue, its pending error and its   *)
(* read timeout are shared, message_queue, buffer and timeout_secs are     *)
(* fields of each handle.  The client variables describe the handle whose  *)
(* thread takes the next step; the other handle is parked in `other`, and  *)
(* Switch exchanges the two.                                               *)

MaxHandleArrivals == 2   \* arrivals at the shared socket
MaxHandleCalls == 2      \* send, recv and wait_for calls of the two handles together

\* The messages given to send
SendMessages == {OscMessage(AddrX, <<ArgInt(1)>>), OscMessage(AddrY, <<>>)}

\* Ok(n) of send: n bytes were sent
OkSize(n) == Res("Ok", <<>>, <<>>, <<>>, n, 0, "")

\* Mutant of try_clone: the derived Clone, which copies the queue and the
\* buffer with their contents
derived_clone(queue, timeout, buf) ==
    Handle(queue, timeout, buf, "idle", <<>>, 0, NoResult)

\* OscClient::try_clone: the handle made from a handle with these fields
try_clone(queue, timeout, buf) ==
    Handle(<<>>, timeout, Zeros(Len(buf)), "idle", <<>>, 0, NoResult)

\* OscClient::send(message), sendOk whether the socket accepts the datagram
client_send(m, sendOk) ==
    IF build(m).kind # "Ok" THEN build(m)
    ELSE IF sendOk THEN OkSize(Len(build(m).bytes))
    ELSE SocketErr("ConnectionRefused")

\* A datagram reaches the shared socket
SharedArrive ==
    /\ arrivals < MaxHandleArrivals
    /\ Arrive

\* try_clone called on the handle in use, which is inside no call
TryClone ==
    /\ other = NoHandle
    /\ pc = "idle"
    /\ other' = try_clone(message_queue, timeout_secs, buffer)
    /\ UNCHANGED <<codecVars, serverVars, net, pendingErr, buffer, message_queue,
                   timeout_secs, read_timeout, pc, target, elapsed, taken, arrivals,
                   calls, polled, returned, lastCall, lastDatagram, receivedBy, lastPoll, current>>

\* The thread of the other handle takes the next step
Switch ==
    /\ other # NoHandle
    /\ other' = Handle(message_queue, timeout_secs, buffer, pc, target, elapsed, lastPoll)
    /\ message_queue' = other.message_queue
    /\ timeout_secs' = other.timeout_secs
    /\ buffer' = other.buffer
    /\ pc' = other.pc
    /\ target' = other.target
    /\ elapsed' = other.elapsed
    /\ lastPoll' = other.lastPoll
    /\ current' = IF current = "original" THEN "clone" ELSE "original"
    /\ UNCHANGED <<codecVars, serverVars, net, pendingErr, read_timeout, taken, arrivals,
                   calls, polled, returned, lastCall, lastDatagram, receivedBy>>

\* OscClient::send called on the handle in use
Send ==
    /\ pc = "idle"
    /\ calls < MaxHandleCalls
    /\ \E m \in SendMessages, sendOk \in BOOLEAN :
        lastCall' = Call("send", <<>>, client_send(m, sendOk), NoMsg)
    /\ calls' = calls + 1
    /\ UNCHANGED <<codecVars, serverVars, net, pendingErr, buffer, message_queue,
                   timeout_secs, read_timeout, pc, target, elapsed, taken, arrivals,
                   polled, returned, lastDatagram, receivedBy, lastPoll, handleVars>>

\* OscClient::recv called on the handle in use
HandleRecv ==
    /\ calls < MaxHandleCalls
    /\ Recv

\* OscClient::wait_for called on the handle in use
HandleWaitFor ==
    /\ calls < MaxHandleCalls
    /\ WaitFor

HandlesNext ==
    \/ SharedArrive
    \/ TryClone
    \/ Switch
    \/ Send
    \/ HandleRecv
    \/ HandleWaitFor
    \/ FirstRecv
    \/ LoopRecv

HandlesSpec == ClientInit /\ [][HandlesNext]_vars

----------------------------------------------------------------------------
(* ServerSpec: one OscServer *)

MaxServed == 3        \* iterations of the loop of start

\* The addresses add_route is called with: "/x", "/y" and ""
Uris == {AddrX, AddrY, <<>>}
\* fn(&OscMessage) -> Option<Vec<Arg>>: "ping" answers ["pong"], "echo"
\* answers the request's arguments, "silent" answers None
Handlers == {"ping", "echo", "silent"}
Senders == {"peer1", "peer2"}
\* capacity given to OscServer::new
Capacities == {16, 1024}

\* func(request): some is FALSE for None
call_handler(func, request) ==
    CASE func = "ping" -> [some |-> TRUE, args |-> <<ArgStr(<<112, 111, 110, 103>>)>>]
      [] func = "echo" -> [some |-> TRUE, args |-> request.args]
      [] func = "silent" -> [some |-> FALSE, args |-> <<>>]

\* Mutant of with_capacity: vec![0; capacity], a buffer of capacity bytes
vec_of_zeros(capacity) == Zeros(capacity)

\* Vec::with_capacity(capacity): an empty vector; the capacity is room to
\* grow, not length
with_capacity(capacity) == <<>>

\* OscServer::new(bind_addr, capacity)
ServerInit ==
    /\ CodecIdle
    /\ ClientIdle
    /\ phase = "Building"
    /\ route_table = <<>>
    /\ \E capacity \in Capacities : sbuffer = with_capacity(capacity)
    /\ served = 0
    /\ lastIn = NoIn
    /\ lastOut = <<>>
    /\ undecodableSeen = FALSE
    /\ startResult = NoResult
    /\ registered = <<>>
    /\ sendFailedSeen = FALSE

\* HashMap::insert(uri, func): the table afterwards
insert(table, uri, func) ==
    [u \in (DOMAIN table) \cup {uri} |-> IF u = uri THEN func ELSE table[u]]

\* registered after add_route(uri, func)
note_route(calls_so_far, uri, func) ==
    [u \in (DOMAIN calls_so_far) \cup {uri} |->
        IF u = uri
        THEN (IF u \in DOMAIN calls_so_far THEN calls_so_far[u] ELSE <<>>) \o <<func>>
        ELSE calls_so_far[u]]

\* Mutant of AddRoute: insert without the assert, a later handler replaces
\* the earlier one
AddRouteOverwriting ==
    /\ phase = "Building"
    /\ \E uri \in Uris, func \in Handlers :
        /\ route_table' = insert(route_table, uri, func)
        /\ registered' = note_route(registered, uri, func)
        /\ phase' = "Building"
    /\ UNCHANGED <<codecVars, clientVars, sbuffer, served, lastIn, lastOut,
                   undecodableSeen, startResult, sendFailedSeen>>

\* Mutant of AddRoute: add_route(&mut self, ..), callable while the loop runs
AddRouteWhileRunning ==
    /\ phase \in {"Building", "Running"}
    /\ \E uri \in Uris, func \in Handlers :
        /\ route_table' = insert(route_table, uri, func)
        /\ registered' = note_route(registered, uri, func)
        /\ phase' = IF uri \in DOMAIN route_table THEN "Panicked" ELSE phase
    /\ UNCHANGED <<codecVars, clientVars, sbuffer, served, lastIn, lastOut,
                   undecodableSeen, startResult, sendFailedSeen>>

\* OscServer::add_route(self, uri, func): the assert fails when insert finds
\* uri.  add_route takes the server by value, as start does: it can be called
\* only on a server that start has not consumed.
AddRoute ==
    /\ phase = "Building"
    /\ \E uri \in Uris, func \in Handlers :
        /\ route_table' = insert(route_table, uri, func)
        /\ registered' = note_route(registered, uri, func)
        /\ phase' = IF uri \in DOMAIN route_table THEN "Panicked" ELSE "Building"
    /\ UNCHANGED <<codecVars, clientVars, sbuffer, served, lastIn, lastOut,
                   undecodableSeen, startResult, sendFailedSeen>>

\* OscServer::start is called: the loop is entered
Start ==
    /\ phase = "Building"
    /\ phase' = "Running"
    /\ UNCHANGED <<codecVars, clientVars, route_table, sbuffer, served, lastIn,
                   lastOut, undecodableSeen, startResult, registered, sendFailedSeen>>

\* OscServer::handle_request
handle_request(table, request) ==
    IF request.address \in DOMAIN table
    THEN call_handler(table[request.address], request)
    ELSE [some |-> FALSE, args |-> <<>>]

\* self.listener.recv_from(&mut self.buffer) meeting datagram d: the result
\* kinds the socket can give.  A datagram longer than the buffer is cut to
\* the buffer (Unix) or refused with an error (Windows).
RecvFromKinds(buf, d) == IF Len(d) > Len(buf) THEN {"Ok", "MessageSize"} ELSE {"Ok"}

\* Mutant of loop_body: `self.listener.send_to(..).map_err(Error::Socket)?`,
\* a failed send returned from start
loop_body_failing_on_send(table, buf, sender, sendOk) ==
    LET p == parse_bytes(buf)
        response == handle_request(table, OscMessage(p.address, p.args))
        bytes == build(OscMessage(p.address, response.args))
    IN IF p.kind # "Ok" \/ ~response.some
       THEN [out |-> <<>>, err |-> NoResult]
       ELSE IF bytes.kind # "Ok"
       THEN [out |-> <<>>, err |-> bytes]
       ELSE [out |-> <<Reply(bytes.bytes, sender, sendOk)>>,
             err |-> IF sendOk THEN NoResult ELSE SocketErr("ConnectionRefused")]

\* The body of the loop after recv_from returned Ok with the buffer buf: the
\* send_to call made (none: <<>>) and the error build's `?` returns from start
\* (none: NoResult); sendOk is whether the socket accepts the send_to
loop_body(table, buf, sender, sendOk) ==
    LET p == parse_bytes(buf)
        response == handle_request(table, OscMessage(p.address, p.args))
        bytes == build(OscMessage(p.address, response.args))
    IN IF p.kind # "Ok" \/ ~response.some
       THEN [out |-> <<>>, err |-> NoResult]
       ELSE IF bytes.kind # "Ok"
       THEN [out |-> <<>>, err |-> bytes]
       ELSE [out |-> <<Reply(bytes.bytes, sender, sendOk)>>, err |-> NoResult]

\* One iteration of the loop of start that meets the datagram d from sender
Serve ==
    /\ phase = "Running"
    /\ served < MaxServed
    /\ undecodableSeen' = (undecodableSeen
                           \/ (lastIn # NoIn /\ parse_bytes(lastIn.bytes).kind # "Ok"))
    /\ sendFailedSeen' = (sendFailedSeen \/ (lastOut # <<>> /\ ~lastOut[1].ok))
    /\ served' = served + 1
    /\ \E d \in Datagrams \cup {<<>>}, sender \in Senders, sendOk \in BOOLEAN :
        \E kind \in RecvFromKinds(sbuffer, d) :
            \E buf \in {ReceiveInto(sbuffer, d)} :
                \E r \in {IF kind = "Ok" THEN loop_body(route_table, buf, sender, sendOk)
                           ELSE [out |-> <<>>, err |-> NoResult]} :
                    /\ sbuffer' = buf
                    /\ lastIn' = In(d, sender, kind)
                    /\ lastOut' = r.out
                    /\ phase' = IF r.err = NoResult THEN "Running" ELSE "Returned"
                    /\ startResult' = r.err
    /\ UNCHANGED <<codecVars, clientVars, route_table, registered>>

\* One iteration of the loop of start whose recv_from fails without taking
\* a datagram (a reported ICMP error: the peer of an earlier reply is gone)
ServeRecvError ==
    /\ phase = "Running"
    /\ served < MaxServed
    /\ lastIn' = In(<<>>, "", "ConnectionReset")
    /\ lastOut' = <<>>
    /\ undecodableSeen' = (undecodableSeen
                           \/ (lastIn # NoIn /\ lastIn.recv # "ConnectionReset"
                               /\ parse_bytes(lastIn.bytes).kind # "Ok"))
    /\ sendFailedSeen' = (sendFailedSeen \/ (lastOut # <<>> /\ ~lastOut[1].ok))
    /\ served' = served + 1
    /\ UNCHANGED <<codecVars, clientVars, phase, route_table, sbuffer, startResult,
                   registered>>

ServerNext == AddRoute \/ Start \/ Serve \/ ServeRecvError

ServerSpec == ServerInit /\ [][ServerNext]_vars

----------------------------------------------------------------------------
(* The layout of a buffer, as the wire format defines it: what the          *)
(* properties below mean by the address, the type-tag string and the        *)
(* argument values of a buffer.                                             *)

\* The index of the first NUL at or after i, or the buffer's length
FieldEnd(buf, i) ==
    IF i >= Len(buf) THEN i
    ELSE CHOOSE j \in i..Len(buf) :
            /\ j = Len(buf) \/ buf[j + 1] = NUL
            /\ \A k \in i..(j - 1) : buf[k + 1] # NUL

\* The next 4-byte boundary after a field ending at j
FieldNext(j) == 4 * ((j \div 4) + 1)

AddressOf(buf) == SubSeq(buf, 1, FieldEnd(buf, 0))
TagStart(buf) == FieldNext(FieldEnd(buf, 0))
TagStringOf(buf) == SubSeq(buf, TagStart(buf) + 1, FieldEnd(buf, TagStart(buf)))
ValueStart(buf) == FieldNext(FieldEnd(buf, TagStart(buf)))
IsAscii(bs) == \A k \in 1..Len(bs) : bs[k] \in 1..127

\* The tag characters the tag string declares, after its ','
DeclaredTags(buf) ==
    LET t == TagStringOf(buf)
    IN IF t # <<>> /\ Head(t) = COMMA THEN Tail(t) ELSE t

\* 4-byte aligned, address and tag string valid text, tag string starting with ','
WellFormedHeader(buf) ==
    /\ Len(buf) % 4 = 0
    /\ IsAscii(AddressOf(buf))
    /\ IsAscii(TagStringOf(buf))
    /\ TagStringOf(buf) # <<>>
    /\ Head(TagStringOf(buf)) = COMMA

KnownTags == {TAG_i, TAG_f, TAG_s, TAG_b}
\* The positions of the declared tags that are characters outside {i, f, s, b}
UnknownTagPositions(buf) ==
    {k \in 1..Len(DeclaredTags(buf)) : DeclaredTags(buf)[k] \in (1..127) \ KnownTags}
FirstUnknownTag(buf) ==
    DeclaredTags(buf)[CHOOSE k \in UnknownTagPositions(buf) :
                        \A j \in UnknownTagPositions(buf) : k <= j]

\* The offset of the k-th argument value when the arguments before it are
\* Int, Float and Str values laid out from offset i (-1 when one of them is
\* a Blob or does not fit the buffer)
RECURSIVE ValueOffset(_, _, _, _, _)
ValueOffset(buf, tags, j, k, i) ==
    IF i < 0 \/ j = k THEN i
    ELSE CASE tags[j] \in {TAG_i, TAG_f} ->
                ValueOffset(buf, tags, j + 1, k, IF i + 4 <= Len(buf) THEN i + 4 ELSE -1)
           [] tags[j] = TAG_s ->
                ValueOffset(buf, tags, j + 1, k,
                            IF IsAscii(SubSeq(buf, i + 1, FieldEnd(buf, i)))
                            THEN FieldNext(FieldEnd(buf, i)) ELSE -1)
           [] OTHER -> -1

\* The position of the first Blob among the declared tags (0 if none)
FirstBlob(buf) ==
    LET ps == {k \in 1..Len(DeclaredTags(buf)) : DeclaredTags(buf)[k] = TAG_b}
    IN IF ps = {} THEN 0 ELSE CHOOSE k \in ps : \A j \in ps : k <= j

\* The offset of the length field of the first Blob (-1 if there is none or
\* it is not wholly inside the buffer)
BlobLengthOffset(buf) ==
    IF ~WellFormedHeader(buf) \/ UnknownTagPositions(buf) # {} \/ FirstBlob(buf) = 0
    THEN -1
    ELSE LET o == ValueOffset(buf, DeclaredTags(buf), 1, FirstBlob(buf), ValueStart(buf))
         IN IF o >= 0 /\ o + 4 <= Len(buf) THEN o ELSE -1

\* The value of a big-endian two's-complement field with the sign bit set
NegativeValue(bs) ==
    0 - ((255 - bs[1]) * 16777216 + (255 - bs[2]) * 65536
         + (255 - bs[3]) * 256 + (255 - bs[4])) - 1

\* The first Blob's length field is in the buffer and has its sign bit set
NegativeBlobLength(buf) ==
    /\ BlobLengthOffset(buf) >= 0
    /\ buf[BlobLengthOffset(buf) + 1] >= 128

----------------------------------------------------------------------------
(* Codec properties, under CodecSpec *)

\* C1: round trip. Whenever the bytes parsed are the bytes build made of
\* message, parse_bytes returns Ok with message's address and message's
\* arguments, in order. (Violated: parse_bytes does not skip the padding
\* write_blob puts after a Blob, so an argument after a Blob is read from
\* the padding.)
C1_RoundTrip ==
    (origin = "built" /\ parsed # NoResult)
        => parsed = OkMessage(message.address, message.args)

\* C8: an aligned buffer with a well-formed header whose tag string declares
\* recognised arguments, with fewer bytes left than the 4 bytes each declared
\* argument needs at least, is refused. The claim says more (the error is
\* DataLength); the code violates already this much: for tag s the scanning
\* loop just stops at the end of the buffer and a message is returned.
C8_ShortBufferFails ==
    (/\ origin = "raw"
     /\ parsed # NoResult
     /\ WellFormedHeader(data)
     /\ DeclaredTags(data) # <<>>
     /\ UnknownTagPositions(data) = {}
     /\ Len(data) - ValueStart(data) < 4 * Len(DeclaredTags(data)))
        => parsed.kind # "Ok"

\* C9 as stated: in a 4-byte-aligned buffer whose tag string holds a
\* character outside {i, f, s, b}, parse_bytes fails with
\* UnrecognisedTypeTag of the first such character. (Violated: an address or
\* tag string that is not UTF-8 is reported first, as Utf8, and a tag string
\* without the leading ',' is reported as Malformed.)
C9_TagErrorAlways ==
    (/\ origin = "raw"
     /\ parsed # NoResult
     /\ Len(data) % 4 = 0
     /\ UnknownTagPositions(data) # {})
        => parsed = Err("UnrecognisedTypeTag", FirstUnknownTag(data), 0, "")

\* C9 amended: with a well-formed header (aligned, address and tag string
\* valid UTF-8, tag string starting with ',') holding after the ',' a
\* character outside {i, f, s, b}, parse_bytes fails with
\* UnrecognisedTypeTag of the first such character; and whatever the header,
\* such a buffer is refused before any argument value is read: the result is
\* never a message, DataLength, BlobSize or the Utf8 error of a string
\* argument.
C9_TagErrorsPrecedeValueErrors ==
    (/\ origin = "raw"
     /\ parsed # NoResult
     /\ Len(data) % 4 = 0
     /\ UnknownTagPositions(data) # {})
        => /\ WellFormedHeader(data)
                => parsed = Err("UnrecognisedTypeTag", FirstUnknownTag(data), 0, "")
           /\ parsed.kind \in {"Utf8", "Malformed", "UnrecognisedTypeTag"}
           /\ parsed.s # "OSC string"

\* C9 witness: a buffer with tags ",ix" and no value bytes (the Int before
\* the unknown tag has no data) was refused for its tag
C9_Witness ==
    /\ origin = "raw"
    /\ WellFormedHeader(data)
    /\ DeclaredTags(data) = <<TAG_i, 120>>
    /\ Len(data) = ValueStart(data)
    /\ parsed.kind = "UnrecognisedTypeTag"

\* C10: parsing a buffer whose first Blob has a length field with the sign
\* bit set returns BlobSize(n), n the field's value; parse_bytes never
\* panics on an index outside the buffer; and it returns either an error
\* carrying no message, or a message with one argument per declared tag,
\* each of the declared variant.
C10_NegativeBlobLength ==
    (origin = "raw" /\ parsed # NoResult)
        => /\ parsed.kind # "Panic"
           /\ NegativeBlobLength(data)
                => parsed = Err("BlobSize",
                                NegativeValue(SubSeq(data, BlobLengthOffset(data) + 1,
                                                     BlobLengthOffset(data) + 4)),
                                0, "")
           /\ parsed.kind = "Ok"
                => /\ Len(parsed.args) = Len(DeclaredTags(data))
                   /\ \A k \in 1..Len(parsed.args) :
                        arg_char_repr(parsed.args[k]) = DeclaredTags(data)[k]
           /\ parsed.kind # "Ok" => (parsed.address = <<>> /\ parsed.args = <<>>)

\* C10 witness: a Blob after a Str argument, its length field -1, refused
C10_Witness ==
    /\ origin = "raw"
    /\ DeclaredTags(data) = <<TAG_s, TAG_b>>
    /\ NegativeBlobLength(data)
    /\ parsed = Err("BlobSize", -1, 0, "")

\* The smallest multiple of 4 that leaves room for n bytes and a zero byte
PaddedLen(n) == 4 * ((n \div 4) + 1)

\* At offset i of bytes lies a field holding content: content, then zero
\* bytes up to a multiple of 4 bytes, at least one
ZeroPadded(bytes, i, content) ==
    /\ i + PaddedLen(Len(content)) <= Len(bytes)
    /\ SubSeq(bytes, i + 1, i + Len(content)) = content
    /\ \A k \in (i + Len(content) + 1)..(i + PaddedLen(Len(content))) : bytes[k] = NUL

\* From offset i on, bytes holds the fields of the arguments args[k..] and
\* nothing else: 4 bytes for an Int or a Float, a zero-padded field for a Str,
\* 4 bytes of length and a zero-padded field for a Blob's payload
RECURSIVE ArgFieldsFrom(_, _, _, _)
ArgFieldsFrom(bytes, args, k, i) ==
    IF k > Len(args) THEN i = Len(bytes)
    ELSE CASE args[k].t \in {"Int", "Float"} ->
                i + 4 <= Len(bytes) /\ ArgFieldsFrom(bytes, args, k + 1, i + 4)
           [] args[k].t = "Str" ->
                /\ ZeroPadded(bytes, i, args[k].b)
                /\ ArgFieldsFrom(bytes, args, k + 1, i + PaddedLen(Len(args[k].b)))
           [] args[k].t = "Blob" ->
                /\ i + 4 <= Len(bytes)
                /\ ZeroPadded(bytes, i + 4, args[k].b)
                /\ ArgFieldsFrom(bytes, args, k + 1, i + 4 + PaddedLen(Len(args[k].b)))

\* The type-tag string of the arguments: ',' and one character per argument
TagStringFor(args) == <<COMMA>> \o [k \in 1..Len(args) |-> arg_char_repr(args[k])]

\* C11: alignment. Whenever build succeeds, the length of its output is a
\* multiple of 4, and the output is made of the address, the type-tag string
\* and the arguments in order, where the address, the tag string, every Str
\* argument and every Blob payload occupies a multiple of 4 bytes: its bytes
\* followed by zero bytes.
C11_Alignment ==
    built.kind = "Ok"
        => /\ Len(built.bytes) % 4 = 0
           /\ ZeroPadded(built.bytes, 0, message.address)
           /\ ZeroPadded(built.bytes, PaddedLen(Len(message.address)),
                         TagStringFor(message.args))
           /\ ArgFieldsFrom(built.bytes, message.args, 1,
                            PaddedLen(Len(message.address))
                              + PaddedLen(Len(TagStringFor(message.args))))

\* C11 witness: a message with a Str and a Blob whose lengths are already
\* multiples of 4 was built
C11_Witness ==
    /\ built.kind = "Ok"
    /\ message.args = <<ArgStr(<<97, 98, 99, 100>>), ArgBlob(<<1, 2, 3, 4>>)>>
    /\ Len(built.bytes) % 4 = 0

\* The number of zero bytes after a string of n bytes: the one count from 1 to
\* 4 that brings the field to a multiple of 4 bytes
StringPad(n) == CHOOSE z \in 1..4 : (n + z) % 4 = 0

\* A string field: the raw bytes, then StringPad zero bytes
StringField(s) == s \o Zeros(StringPad(Len(s)))

\* The argument section with every Str argument as a string field and every
\* other argument as write_arg writes it
RECURSIVE ArgSection(_)
ArgSection(args) ==
    IF args = <<>> THEN <<>>
    ELSE (IF Head(args).t = "Str" THEN StringField(Head(args).b)
          ELSE write_arg(Head(args)).bytes)
         \o ArgSection(Tail(args))

\* The strings build writes for message: address, type-tag string, Str arguments
StringsOf(m) ==
    {m.address, TagStringFor(m.args)}
    \cup {m.args[k].b : k \in {j \in 1..Len(m.args) : m.args[j].t = "Str"}}

\* C22: string padding rule. Whenever build succeeds, its output is the
\* address, the type-tag string and the arguments in order, where the address,
\* the tag string and every Str argument is its raw bytes followed by 1 to 4
\* zero bytes; the length of such a field is the smallest multiple of 4
\* strictly greater than the length of the string, so a string whose length
\* is a multiple of 4 is followed by 4 zero bytes.
C22_StringPadding ==
    built.kind = "Ok"
        => /\ built.bytes = StringField(message.address)
                               \o StringField(TagStringFor(message.args))
                               \o ArgSection(message.args)
           /\ \A str \in StringsOf(message) :
                /\ Len(StringField(str)) % 4 = 0
                /\ Len(StringField(str)) > Len(str)
                /\ Len(StringField(str)) <= Len(str) + 4
                /\ Len(str) % 4 = 0 => StringField(str) = str \o <<NUL, NUL, NUL, NUL>>

\* C22 witness: a message whose address and whose Str argument are both 4
\* bytes long was built, and 4 zero bytes follow the address
C22_Witness ==
    /\ built.kind = "Ok"
    /\ message.address = <<47, 97, 98, 99>>
    /\ message.args = <<ArgStr(<<97, 98, 99, 100>>)>>
    /\ SubSeq(built.bytes, 1, 8) = <<47, 97, 98, 99, NUL, NUL, NUL, NUL>>
    /\ Len(built.bytes) = 20

\* C16: empty-args encoding. For a message without arguments build returns
\* the address followed by 1 to 4 zero bytes up to a multiple of 4, then the
\* four bytes ',' 0 0 0 and nothing more; for "/x" these are the 8 bytes
\* '/', 'x', 0, 0, ',', 0, 0, 0.
C16_EmptyArgs ==
    (built # NoResult /\ message.args = <<>>)
        => /\ built.kind = "Ok"
           /\ Len(built.bytes) = PaddedLen(Len(message.address)) + 4
           /\ ZeroPadded(built.bytes, 0, message.address)
           /\ SubSeq(built.bytes, Len(built.bytes) - 3, Len(built.bytes))
                = <<COMMA, NUL, NUL, NUL>>
           /\ message.address = <<47, 120>>
                => built.bytes = <<47, 120, 0, 0, 44, 0, 0, 0>>

\* C16 witness: the message "/x" without arguments was built
C16_Witness ==
    /\ built.kind = "Ok"
    /\ message = OscMessage(<<47, 120>>, <<>>)

----------------------------------------------------------------------------
(* Client properties, under ClientSpec and ClientFair *)

\* The messages wait_for(addr) returned, in the order of the calls
RECURSIVE ReturnedFor(_, _)
ReturnedFor(rs, addr) ==
    IF rs = <<>> THEN <<>>
    ELSE IF Head(rs)[1] = addr
         THEN <<Head(rs)[2]>> \o ReturnedFor(Tail(rs), addr)
         ELSE ReturnedFor(Tail(rs), addr)

\* The messages addressed addr that the wait_for calls received, in the order
\* their datagrams came from the socket
RECURSIVE PolledFor(_, _)
PolledFor(ms, addr) ==
    IF ms = <<>> THEN <<>>
    ELSE IF Head(ms).address = addr
         THEN <<Head(ms)>> \o PolledFor(Tail(ms), addr)
         ELSE PolledFor(Tail(ms), addr)

\* C3: correlation ordering. For every address, the messages the successful
\* wait_for calls for that address have returned so far are, in the order of
\* the calls, the first messages with that address that the client's wait_for
\* calls received, in the order their datagrams arrived: none is skipped or
\* overtaken, whatever calls for other addresses came in between.
C3_CorrelationOrdering ==
    \A addr \in WaitAddrs :
        LET ret == ReturnedFor(returned, addr)
            pol == PolledFor(polled, addr)
        IN /\ Len(ret) <= Len(pol)
           /\ ret = SubSeq(pol, 1, Len(ret))

\* C3 witness: arrivals A("/x"), B("/y"), C("/x"); wait_for("/x") returned A,
\* the next wait_for("/x") returned C and wait_for("/y") then returned B
C3_Witness ==
    /\ Len(returned) = 3
    /\ returned[1][1] = AddrX /\ returned[1][2].id = 1
    /\ returned[2][1] = AddrX /\ returned[2][2].id = 3
    /\ returned[3][1] = AddrY /\ returned[3][2].id = 2
    /\ returned[3][2].address = AddrY

\* C4: bounded wait. Every wait_for call in progress eventually returns.
\* (Violated under ClientFair by a client made with timeout_secs = None: the
\* socket has no read timeout, recv blocks until a datagram comes, and
\* without one the call never reaches the check of timeout_secs.)
C4_WaitForReturns == (pc \in {"first_recv", "loop_recv"}) ~> (pc = "idle")

\* C7: recv decodes the datagram it received. After a recv that took a
\* datagram from the socket without a socket error, the result is
\* parse_bytes of that datagram's bytes; stated here for the datagrams that
\* parse_bytes accepts. (Violated: recv parses the whole of self.buffer,
\* whatever the number of bytes received.)
C7_RecvDecodesDatagram ==
    (/\ lastCall.op = "recv"
     /\ lastDatagram # NoDatagram
     /\ lastCall.res.kind # "Socket"
     /\ parse_bytes(lastDatagram).kind = "Ok")
        => lastCall.res = parse_bytes(lastDatagram)

\* The number of entries of seq equal to m
Count(seq, m) == Cardinality({i \in 1..Len(seq) : seq[i] = m})

\* The messages the wait_for calls returned
ReturnedMsgs == [k \in 1..Len(returned) |-> returned[k][2]]

\* C13: wait_for aborts only on real errors. When the last recv of a
\* wait_for gave "no data ready" (WouldBlock), the call did not end with that
\* result: it is still polling, or it ended with its own timeout once the
\* time in the loop reached timeout_secs. When the recv gave any other socket
\* error or a decode error, the call ended at once with that same error.
C13_OnlyRealErrorsAbort ==
    /\ lastPoll = SocketErr("WouldBlock")
         => \/ pc = "loop_recv"
            \/ /\ pc = "idle"
               /\ lastCall = Call("wait_for", target, WaitTimeout(elapsed), NoMsg)
               /\ elapsed >= timeout_secs
    /\ (lastPoll.kind \notin {"None", "Ok"} /\ lastPoll # SocketErr("WouldBlock"))
         => /\ pc = "idle"
            /\ lastCall = Call("wait_for", target, lastPoll, NoMsg)

\* C13 witness: the first recv of a wait_for found no data, and the call
\* polls on, a message for another address already queued by an earlier call
C13_Witness ==
    /\ lastPoll = SocketErr("WouldBlock")
    /\ pc = "loop_recv"
    /\ message_queue # <<>>

\* wait_for(addr) is called in this step: it returns from the queue or goes
\* on to its first recv
WaitForCalled(addr) ==
    /\ pc = "idle"
    /\ calls' = calls + 1
    /\ \/ pc' = "first_recv" /\ target' = addr
       \/ pc' = "idle" /\ lastCall'.op = "wait_for" /\ lastCall'.addr = addr

\* The position of the first entry of the queue addressed addr
FirstEntryFor(addr) ==
    CHOOSE i \in 1..Len(message_queue) :
        /\ message_queue[i].address = addr
        /\ \A j \in 1..(i - 1) : message_queue[j].address # addr

\* C17: a queue hit does no I/O. When wait_for(addr) is called while the
\* queue holds an entry addressed addr, the call returns the first such entry
\* in that same step, the queue afterwards is the queue before without that
\* one entry, the others in their order, and the socket and the receive
\* buffer are untouched.
C17_QueueHitNoIO ==
    [][\A addr \in WaitAddrs :
        (WaitForCalled(addr)
         /\ \E i \in 1..Len(message_queue) : message_queue[i].address = addr)
            => /\ pc' = "idle"
               /\ lastCall' = Call("wait_for", addr,
                                   OkMessage(message_queue[FirstEntryFor(addr)].address,
                                             message_queue[FirstEntryFor(addr)].args),
                                   message_queue[FirstEntryFor(addr)])
               /\ Len(message_queue') = Len(message_queue) - 1
               /\ \A j \in 1..Len(message_queue') :
                    message_queue'[j] = IF j < FirstEntryFor(addr)
                                        THEN message_queue[j]
                                        ELSE message_queue[j + 1]
               /\ UNCHANGED <<net, pendingErr, buffer, taken>>]_vars

\* C17 witness: wait_for returned an entry from the middle of the queue
\* without a recv; an older and a newer message stay queued
C17_Witness ==
    /\ pc = "idle"
    /\ lastCall.op = "wait_for"
    /\ lastCall.res.kind = "Ok"
    /\ lastPoll = NoResult
    /\ Len(message_queue) = 2
    /\ message_queue[1].id < lastCall.msg.id
    /\ lastCall.msg.id < message_queue[2].id

\* C18: no message is lost or duplicated by wait_for. Every message a
\* wait_for received and decoded is, once, either in the queue or the return
\* value of a wait_for; the queue and the return values hold nothing else;
\* and every message returned has the address its call asked for.
C18_NoLossNoDuplicate ==
    /\ \A k \in 1..Len(polled) :
         Count(ReturnedMsgs, polled[k]) + Count(message_queue, polled[k]) = 1
    /\ \A i \in 1..Len(message_queue) : Count(polled, message_queue[i]) = 1
    /\ \A k \in 1..Len(returned) :
         /\ Count(polled, returned[k][2]) = 1
         /\ returned[k][2].address = returned[k][1]

\* C18 witness: a wait_for ended with its timeout after another had ended
\* with a message; of three messages received one was returned, two are queued
C18_Witness ==
    /\ pc = "idle"
    /\ lastCall.op = "wait_for"
    /\ lastCall.res.s = "TimedOut"
    /\ Len(polled) = 3
    /\ Len(returned) = 1
    /\ Len(message_queue) = 2

\* C19: the timeout of wait_for. A wait_for ends with a timeout only when
\* every message for its address received so far was returned by an earlier
\* call (none came during this one), and either the time since loop_start
\* has reached timeout_secs (wait_for's own timeout), or the socket's read
\* timeout, which is no shorter than timeout_secs, ran out inside recv (the
\* socket's TimedOut error, passed on). And a message for the address
\* received by an iteration of the loop is returned by it, whatever the time.
C19_TimeoutOnlyWhenDue ==
    [][/\ (pc \in {"first_recv", "loop_recv"} /\ pc' = "idle"
           /\ lastCall'.res.kind = "Socket" /\ lastCall'.res.s = "TimedOut")
            => /\ \A k \in 1..Len(polled') :
                    polled'[k].address = target => Count(ReturnedMsgs', polled'[k]) = 1
               /\ \A i \in 1..Len(message_queue') : message_queue'[i].address # target
               /\ \/ /\ lastCall'.res = WaitTimeout(elapsed')
                     /\ pc = "loop_recv"
                     /\ elapsed' >= timeout_secs
                  \/ /\ lastCall'.res = SocketErr("TimedOut")
                     /\ lastPoll' = SocketErr("TimedOut")
                     /\ read_timeout # <<>>
                     /\ read_timeout[1] >= timeout_secs
       /\ (pc = "loop_recv" /\ Len(polled') = Len(polled) + 1
           /\ polled'[Len(polled')].address = target)
            => /\ pc' = "idle"
               /\ lastCall' = Call("wait_for", target,
                                   OkMessage(polled'[Len(polled')].address,
                                             polled'[Len(polled')].args),
                                   polled'[Len(polled')])]_vars

\* C19 witness: an iteration of the loop received the message waited for
\* when the time since loop_start had reached timeout_secs; it was returned
C19_Witness ==
    /\ pc = "idle"
    /\ lastCall.op = "wait_for"
    /\ lastCall.res.kind = "Ok"
    /\ lastPoll.kind = "Ok"
    /\ elapsed >= timeout_secs

\* A step that is one call of OscClient::recv
RecvCalled ==
    /\ pc = "idle"
    /\ pc' = "idle"
    /\ calls' = calls + 1
    /\ lastCall'.op = "recv"

\* C23: direct receive bypasses correlation. A call of recv leaves the
\* correlation queue as it is, whatever the queue holds; with a datagram
\* waiting and no socket error pending it takes the datagram at the head of
\* the transport, and what it returns is decoded from the buffer that
\* datagram was received into, never taken from the queue; the message it
\* returns is newer than every queued message and is not in the queue after
\* the call, whose entries all come from the polls of wait_for.
C23_RecvBypassesQueue ==
    [][RecvCalled
        => /\ message_queue' = message_queue
           /\ polled' = polled
           /\ returned' = returned
           /\ (net # <<>> /\ ~pendingErr)
                => /\ lastDatagram' = Head(net)
                   /\ net' = Tail(net)
                   /\ taken' = taken + 1
           /\ lastCall'.res.kind = "Ok"
                => /\ net # <<>>
                   /\ lastDatagram' = Head(net)
                   /\ buffer' = ReceiveInto(buffer, Head(net))
                   /\ lastCall'.res = parse_bytes(buffer')
                   /\ lastCall'.msg = Msg(lastCall'.res.address, lastCall'.res.args,
                                          taken + 1)
                   /\ \A i \in 1..Len(message_queue') :
                        /\ message_queue'[i].id < lastCall'.msg.id
                        /\ Count(polled', message_queue'[i]) = 1
                   /\ Count(polled', lastCall'.msg) = 0]_vars

\* C23 witness: recv returned a message while the queue held an older one
\* for the same address, which is still queued
C23_Witness ==
    /\ lastCall.op = "recv"
    /\ lastCall.res.kind = "Ok"
    /\ message_queue # <<>>
    /\ message_queue[1].id < lastCall.msg.id
    /\ message_queue[1].address = lastCall.msg.address

----------------------------------------------------------------------------
(* Properties of two handles, under HandlesSpec *)

\* C15: handle independence. The handle try_clone makes has an empty
\* message_queue and a buffer of its own of the length of the original's,
\* and making it leaves the original's queue and buffer as they are; no step
\* of one handle (send, recv, wait_for) changes the message_queue or the
\* buffer of the other; and when the other handle's thread takes over, each
\* handle still has the queue and the buffer it had.
C15_HandleIndependence ==
    [][/\ (other = NoHandle /\ other' # NoHandle)
            => /\ other'.message_queue = <<>>
               /\ Len(other'.buffer) = Len(buffer)
               /\ message_queue' = message_queue
               /\ buffer' = buffer
       /\ (other # NoHandle /\ current' = current)
            => /\ other'.message_queue = other.message_queue
               /\ other'.buffer = other.buffer
       /\ current' # current
            => /\ other'.message_queue = message_queue
               /\ other'.buffer = buffer
               /\ message_queue' = other.message_queue
               /\ buffer' = other.buffer]_vars

\* C15 witness: both handles have received; their queues and buffers differ
C15_Witness ==
    /\ other # NoHandle
    /\ message_queue # <<>>
    /\ other.message_queue # <<>>
    /\ message_queue # other.message_queue
    /\ buffer # other.buffer

\* The message the last step's wait_for returned
JustReturned == returned'[Len(returned')][2]

\* C24: two handles on one connection. Every datagram that arrived is either
\* still in the socket or was taken by one recv, of one handle, and who took
\* it never changes: no datagram is received twice. A handle's correlation
\* queue holds only messages that handle itself received, and a wait_for
\* returns only a message its own handle received: one just received, or one
\* from its own queue; so a message in one handle's queue is never returned
\* by a wait_for on the other handle.
C24_SharedSocketHandles ==
    [][/\ taken' + Len(net') = arrivals'
       /\ Len(receivedBy') = taken'
       /\ \A k \in 1..Len(receivedBy) : receivedBy'[k] = receivedBy[k]
       /\ taken' # taken
            => (taken' = taken + 1 /\ net # <<>> /\ net' = Tail(net) /\ other' = other)
       /\ \A i \in 1..Len(message_queue') :
            receivedBy'[message_queue'[i].id] = current'
       /\ other' # NoHandle
            => \A j \in 1..Len(other'.message_queue) :
                 receivedBy'[other'.message_queue[j].id] # current'
       /\ returned' # returned
            => /\ receivedBy'[JustReturned.id] = current
               /\ other' = other
               /\ other # NoHandle
                    => \A j \in 1..Len(other.message_queue) :
                         other.message_queue[j] # JustReturned
               /\ \/ \E i \in 1..Len(message_queue) : message_queue[i] = JustReturned
                  \/ JustReturned.id = taken + 1]_vars

\* C24 witness: each of the two handles received one of two datagrams for
\* the same address; one holds its message in its queue, and the wait_for
\* of the other returned the other message
C24_Witness ==
    /\ other # NoHandle
    /\ receivedBy = <<"original", "clone">>
    /\ Len(other.message_queue) = 1
    /\ Len(returned) = 1
    /\ lastCall.op = "wait_for"
    /\ lastCall.res.kind = "Ok"
    /\ returned[1][2].address = other.message_queue[1].address
    /\ returned[1][2].id # other.message_queue[1].id

----------------------------------------------------------------------------
(* Server properties, under ServerSpec *)

\* d is the encoding of the message it decodes to
WellFormedDatagram(d) ==
    /\ parse_bytes(d).kind = "Ok"
    /\ build(OscMessage(parse_bytes(d).address, parse_bytes(d).args)) = OkBytes(d)

\* The last iteration met a well-formed datagram whose address has a route,
\* and the route's handler yields reply arguments
RequestWithReply ==
    /\ phase \in {"Running", "Returned"}
    /\ lastIn.recv \in {"Ok", "MessageSize"}
    /\ WellFormedDatagram(lastIn.bytes)
    /\ parse_bytes(lastIn.bytes).address \in DOMAIN route_table
    /\ handle_request(route_table,
                      OscMessage(parse_bytes(lastIn.bytes).address,
                                 parse_bytes(lastIn.bytes).args)).some

\* The reply arguments the handler yields for the last datagram
ExpectedReplyArgs ==
    handle_request(route_table,
                   OscMessage(parse_bytes(lastIn.bytes).address,
                              parse_bytes(lastIn.bytes).args)).args

\* The last iteration made exactly one send_to, to the datagram's sender, of
\* bytes that decode to the request's address with the handler's arguments
RepliedOnce ==
    /\ Len(lastOut) = 1
    /\ lastOut[1].to = lastIn.sender
    /\ parse_bytes(lastOut[1].bytes)
         = OkMessage(parse_bytes(lastIn.bytes).address, ExpectedReplyArgs)

\* C2: dispatch. When the running server meets a well-formed datagram whose
\* address has a route and the handler yields reply arguments, it sends the
\* sender exactly one datagram, which decodes to that address with those
\* arguments. (Violated: self.buffer has length 0, so recv_from stores no
\* byte of the datagram and parse_bytes decodes the empty buffer.)
C2_Dispatch == RequestWithReply => RepliedOnce

\* C5: malformed-input resilience. After the server met a datagram that
\* parse_bytes refuses, it is still in the loop, and a later well-formed
\* request to a route whose handler yields arguments is answered.
\* (Violated for the same reason as C2.)
C5_ServesAfterMalformed ==
    (undecodableSeen /\ RequestWithReply) => (phase = "Running" /\ RepliedOnce)

\* C6: a receive failure is fatal. After an iteration whose recv_from
\* failed, start has returned that error. (Violated: the loop body is under
\* `if let Ok(..) = recv_from(..)`; an Err is dropped and the loop goes on.)
C6_RecvFailureIsFatal ==
    (lastIn.recv = "ConnectionReset")
        => (phase = "Returned" /\ startResult = SocketErr(lastIn.recv))

\* The last iteration met a well-formed datagram for which no reply is due:
\* its address has no route, or the route's handler yields None
RequestWithoutReply ==
    /\ phase \in {"Running", "Returned"}
    /\ lastIn.recv \in {"Ok", "MessageSize"}
    /\ WellFormedDatagram(lastIn.bytes)
    /\ ~handle_request(route_table,
                       OscMessage(parse_bytes(lastIn.bytes).address,
                                  parse_bytes(lastIn.bytes).args)).some

\* C12: no reply without a route. An iteration makes at most one send_to,
\* and none when the datagram's address has no route or the route's handler
\* yields None. (Violated, for the same reason as C2: every datagram is
\* decoded as the message addressed "", so with a route for "" a datagram
\* addressed "/x" is answered by that route's handler.)
C12_NoRouteNoReply ==
    /\ Len(lastOut) <= 1
    /\ RequestWithoutReply => lastOut = <<>>

\* C14: a duplicate route is fatal. add_route has panicked exactly when some
\* address was given to it twice; and a server that reached start was given
\* each of its addresses once, the table holding the handler given with it.
C14_DuplicateRouteIsFatal ==
    /\ (phase = "Panicked") <=> (\E u \in DOMAIN registered : Len(registered[u]) > 1)
    /\ phase \in {"Running", "Returned"}
         => /\ DOMAIN route_table = DOMAIN registered
            /\ \A u \in DOMAIN registered : registered[u] = <<route_table[u]>>

\* C14 witness: add_route was called a second time with an address and panicked
C14_Witness ==
    /\ phase = "Panicked"
    /\ \E u \in DOMAIN registered : Len(registered[u]) = 2

\* C20: the route table is frozen while running. Running is entered only
\* from Building and never left for Building; and while the server is
\* Running (or start has returned) no step changes the route table: add_route
\* is applied in Building only.
C20_RoutesFrozen ==
    [][/\ (phase' = "Running" /\ phase # "Running") => phase = "Building"
       /\ phase \in {"Running", "Returned"}
            => (route_table' = route_table /\ phase' \in {"Running", "Returned"})
       /\ (route_table' # route_table \/ registered' # registered)
            => phase = "Building"]_vars

\* C20 witness: a server with two routes served two datagrams
C20_Witness ==
    /\ phase = "Running"
    /\ served >= 2
    /\ DOMAIN route_table = {AddrX, AddrY}

\* The message the last iteration decoded from its buffer
DecodedRequest == OscMessage(parse_bytes(sbuffer).address, parse_bytes(sbuffer).args)

\* C21: a failed send is tolerated. After an iteration whose send_to failed
\* the server is still in the loop, start having returned nothing; and a
\* later iteration whose recv_from succeeds dispatches what it decoded as
\* any iteration does: it makes one send_to, to the sender, of the decoded
\* address with the handler's arguments, exactly when the decoded address
\* has a route whose handler yields arguments.
C21_SendFailureTolerated ==
    /\ (lastOut # <<>> /\ ~lastOut[1].ok)
         => (phase = "Running" /\ startResult = NoResult)
    /\ sendFailedSeen
         => /\ phase = "Running"
            /\ startResult = NoResult
            /\ lastIn.recv = "Ok"
                 => /\ Len(lastOut) = 1
                        <=> /\ parse_bytes(sbuffer).kind = "Ok"
                            /\ handle_request(route_table, DecodedRequest).some
                    /\ Len(lastOut) = 1
                         => /\ lastOut[1].to = lastIn.sender
                            /\ parse_bytes(lastOut[1].bytes)
                                 = OkMessage(DecodedRequest.address,
                                             handle_request(route_table,
                                                            DecodedRequest).args)

\* C21 witness: after an iteration whose send_to failed, the next one made
\* a send_to that the socket accepted
C21_Witness ==
    /\ sendFailedSeen
    /\ phase = "Running"
    /\ Len(lastOut) = 1
    /\ lastOut[1].ok

====
